---- MODULE Spec2Model ----
(***************************************************************************)
(* The semantic task router of VocaResume (tasks/vector_router.py): the    *)
(* VectorRouter object, the Chroma collection it owns, and its public      *)
(* operations, each modelled as one atomic step.  The collection is an     *)
(* external collaborator: every upsert and query issued to it may raise,   *)
(* and the neighbours a query returns are chosen by the embedding metric,  *)
(* which the router does not control.                                      *)
(*                                                                         *)
(* Python strings are sequences of one-character strings.  Scores and      *)
(* distances are integers in tenths (0.5 is 5, 1 - d is 10 - d).           *)
(***************************************************************************)
EXTENDS Integers, Sequences, FiniteSets, TLC

\* ------------------------------------------------------------------ bounds
\* Cap on the number of non-empty route() calls (route_counts is unbounded).
MaxRoutes == 2
\* Cap on how many store operations may raise inside one call.
MaxFails == 1

\* ----------------------------------------------------------------- strings
\* The printable ASCII characters in code order; ord(c) = 31 + position.
\* The double quote, the backslash and the backtick are written by name.
Printable == <<
   " ", "!", "<dquote>", "#", "$", "%", "&", "'", "(", ")", "*", "+", ",", "-", ".", "/",
   "0", "1", "2", "3", "4", "5", "6", "7", "8", "9", ":", ";", "<", "=", ">", "?",
   "@", "A", "B", "C", "D", "E", "F", "G", "H", "I", "J", "K", "L", "M", "N", "O",
   "P", "Q", "R", "S", "T", "U", "V", "W", "X", "Y", "Z", "[", "<backslash>", "]", "^", "_",
   "<backtick>", "a", "b", "c", "d", "e", "f", "g", "h", "i", "j", "k", "l", "m", "n", "o",
   "p", "q", "r", "s", "t", "u", "v", "w", "x", "y", "z", "{", "|", "}", "~" >>

ord(c) == 31 + (CHOOSE i \in 1..Len(Printable) : Printable[i] = c)

chr(n) == Printable[n - 31]

\* str.lower() on ASCII text.
lower(q) == [i \in 1..Len(q) |-> IF ord(q[i]) >= 65 /\ ord(q[i]) <= 90
                                 THEN chr(ord(q[i]) + 32) ELSE q[i]]

\* Python's  w in q  on strings: w occurs in q as a contiguous substring.
In(w, q) == \E i \in 1..(Len(q) - Len(w) + 1) : SubSeq(q, i, i + Len(w) - 1) = w

\* Python's  text[:n].
Prefix(text, n) == SubSeq(text, 1, IF Len(text) < n THEN Len(text) ELSE n)

\* dict.get(key, default).
Get(m, key, default) == IF key \in DOMAIN m THEN m[key] ELSE default

NoneValue == "None"

\* route(query, k=4).
DefaultK == 4

\* Keywords of the fallback classifier (vector_router.py, route).
KW_interview == <<"i", "n", "t", "e", "r", "v", "i", "e", "w">>
KW_question == <<"q", "u", "e", "s", "t", "i", "o", "n">>
KW_suggest == <<"s", "u", "g", "g", "e", "s", "t">>
KW_improve == <<"i", "m", "p", "r", "o", "v", "e">>
KW_optimiz == <<"o", "p", "t", "i", "m", "i", "z">>
KW_fit == <<"f", "i", "t">>
KW_score == <<"s", "c", "o", "r", "e">>
KW_match == <<"m", "a", "t", "c", "h">>

\* The queries and texts the callers pass in.
Q_empty == << >>
Q_blank == <<" ", " ", " ">>
Q_fit_score == <<"f", "i", "t", " ", "S", "c", "o", "r", "e">>

Queries == {Q_empty, Q_blank, Q_fit_score}

\* Words for the queries put to the keyword classifier, alone or in pairs.
W_interview == <<"I", "n", "t", "e", "r", "v", "i", "e", "w">>
W_question == <<"q", "u", "e", "s", "t", "i", "o", "n">>
W_suggest == <<"s", "u", "g", "g", "e", "s", "t">>
W_improve == <<"i", "m", "p", "r", "o", "v", "e">>
W_optimize == <<"o", "p", "t", "i", "m", "i", "z", "e">>
W_fit == <<"f", "i", "t">>
W_score == <<"S", "c", "o", "r", "e">>
W_match == <<"m", "a", "t", "c", "h">>
W_benefit == <<"b", "e", "n", "e", "f", "i", "t">>
W_resume == <<"r", "e", "s", "u", "m", "e">>

Vocabulary == {W_interview, W_question, W_suggest, W_improve, W_optimize, W_fit, W_score, W_match, W_benefit, W_resume}

WordQueries ==
   {Q_blank} \cup Vocabulary \cup {a \o <<" ">> \o b : a \in Vocabulary, b \in Vocabulary}

T_empty == << >>
T_resume == <<"c", "v">>
T_job == <<"j", "d">>

ResumeTexts == {T_empty, T_resume}
JobTexts == {T_empty, T_job}

\* --------------------------------------------------------------- taxonomy
TASK_LABELS == <<
   [idx |-> 0, label |-> "analysis",
    desc |-> "Comprehensive resume analysis vs job description with strengths, gaps, recommendations."],
   [idx |-> 1, label |-> "interview",
    desc |-> "Generate technical interview questions based on resume content and experience."],
   [idx |-> 2, label |-> "suggestions",
    desc |-> "Provide actionable resume improvement and optimization suggestions."],
   [idx |-> 3, label |-> "job_fit",
    desc |-> "Evaluate job fit score and suitability against the provided job description."] >>

Labels == {TASK_LABELS[i].label : i \in 1..Len(TASK_LABELS)}

\* _hash(text): the first 16 hex digits of SHA-1.  The digest is modelled
\* by a polynomial digest of the character codes kept to 16 bits: like the
\* truncated SHA-1 it is a deterministic function of the text alone.
RECURSIVE Digest(_, _)
Digest(text, h) ==
   IF text = << >> THEN h
   ELSE Digest(Tail(text), (h * 31 + ord(Head(text))) % 65536)

_hash(text) == Digest(text, 7)

RouteResult(task_index, label, score, alt) ==
   [task_index |-> task_index, label |-> label, score |-> score, alt |-> alt]

\* ------------------------------------------------------------------ store
\* The collection's contents: a function from document id to the stored
\* document and metadata.  upsert writes or overwrites the entry of an id.
StoreUpsert(s, id, doc, meta) ==
   [i \in (DOMAIN s) \cup {id} |->
      IF i = id THEN [document |-> doc, metadata |-> meta] ELSE s[i]]

EmptyStore == [i \in {} |-> 0]

\* The embedding metric is outside the router.  A metric gives a distance
\* (in tenths) to every task-label document and one to all other documents:
\* 0.3 (near) or 1.2 (far).
Classes == Labels \cup {"other"}
Metrics ==
   [Classes -> {3, 12}]

DocClass(meta) ==
   IF Get(meta, "doc_type", NoneValue) = "task_label" THEN meta.label ELSE "other"

\* Rank of an id among documents at the same distance.
TieRank(id) ==
   IF id[1] = "task" THEN 3 * 65536 + (3 - id[2])
   ELSE IF id[1] = "q" THEN 2 * 65536 + id[2]
   ELSE IF id[1] = "job" THEN 65536 + id[2]
   ELSE id[2]

NeighbourKey(s, metric, id) ==
   metric[DocClass(s[id].metadata)] * 1048576 + TieRank(id)

RECURSIVE Nearest(_, _, _, _)
Nearest(s, metric, ids, n) ==
   IF n = 0 \/ ids = {} THEN << >>
   ELSE LET m == CHOOSE x \in ids :
                   \A y \in ids : NeighbourKey(s, metric, x) <= NeighbourKey(s, metric, y)
        IN  <<m>> \o Nearest(s, metric, ids \ {m}, n - 1)

\* collection.query(query_texts=[query], n_results=k): the n_results nearest
\* documents, nearest first, as parallel lists of ids, metadatas, distances.
CollectionQuery(s, metric, n_results) ==
   LET near == Nearest(s, metric, DOMAIN s, n_results)
   IN  [ids |-> near,
        metadatas |-> [i \in 1..Len(near) |-> s[near[i]].metadata],
        distances |-> [i \in 1..Len(near) |-> metric[DocClass(s[near[i]].metadata)]]]

\* ----------------------------------------------------------------- router
\* A router in the middle of a call: the object's attributes, the store it
\* writes to, the store operations the call has issued so far (ops), the
\* operational warnings emitted, and the value the call returns.
\* `fails` is the set of positions, among the store operations of the call,
\* at which the store raises.

RECURSIVE UpsertAll(_, _, _, _)
UpsertAll(s, docs, metadatas, ids) ==
   IF ids = << >> THEN s
   ELSE UpsertAll(StoreUpsert(s, Head(ids), Head(docs), Head(metadatas)),
                  Tail(docs), Tail(metadatas), Tail(ids))

\* _upsert, were a successful write to switch the router back to the store.
_upsert_recovering(st, docs, metadatas, ids, fails) ==
   IF st.collection = NoneValue
   THEN [st EXCEPT !.fallback_keyword = TRUE, !.routing_backend = "keyword"]
   ELSE IF (Len(st.ops) + 1) \in fails
        THEN [st EXCEPT !.ops = Append(@, [op |-> "upsert", ids |-> ids, ok |-> FALSE]),
                        !.warnings = IF st.warned_fallback THEN @ ELSE @ + 1,
                        !.warned_fallback = TRUE,
                        !.fallback_keyword = TRUE,
                        !.routing_backend = "keyword"]
        ELSE [st EXCEPT !.ops = Append(@, [op |-> "upsert", ids |-> ids, ok |-> TRUE]),
                        !.store = UpsertAll(@, docs, metadatas, ids),
                        !.fallback_keyword = FALSE,
                        !.routing_backend = "chroma"]

\* _upsert, were a failure to set the flag and leave _routing_backend.
_upsert_flag_only(st, docs, metadatas, ids, fails) ==
   IF st.collection = NoneValue
   THEN [st EXCEPT !.fallback_keyword = TRUE, !.routing_backend = "keyword"]
   ELSE IF (Len(st.ops) + 1) \in fails
        THEN [st EXCEPT !.ops = Append(@, [op |-> "upsert", ids |-> ids, ok |-> FALSE]),
                        !.warnings = IF st.warned_fallback THEN @ ELSE @ + 1,
                        !.warned_fallback = TRUE,
                        !.fallback_keyword = TRUE]
        ELSE [st EXCEPT !.ops = Append(@, [op |-> "upsert", ids |-> ids, ok |-> TRUE]),
                        !.store = UpsertAll(@, docs, metadatas, ids)]

\* _upsert, were the warning emitted at every failure.
_upsert_warning_each(st, docs, metadatas, ids, fails) ==
   IF st.collection = NoneValue
   THEN [st EXCEPT !.fallback_keyword = TRUE, !.routing_backend = "keyword"]
   ELSE IF (Len(st.ops) + 1) \in fails
        THEN [st EXCEPT !.ops = Append(@, [op |-> "upsert", ids |-> ids, ok |-> FALSE]),
                        !.warnings = @ + 1,
                        !.warned_fallback = TRUE,
                        !.fallback_keyword = TRUE,
                        !.routing_backend = "keyword"]
        ELSE [st EXCEPT !.ops = Append(@, [op |-> "upsert", ids |-> ids, ok |-> TRUE]),
                        !.store = UpsertAll(@, docs, metadatas, ids)]

_upsert(st, docs, metadatas, ids, fails) ==
   IF st.collection = NoneValue
   THEN [st EXCEPT !.fallback_keyword = TRUE, !.routing_backend = "keyword"]
   ELSE IF (Len(st.ops) + 1) \in fails
        THEN [st EXCEPT !.ops = Append(@, [op |-> "upsert", ids |-> ids, ok |-> FALSE]),
                        !.warnings = IF st.warned_fallback THEN @ ELSE @ + 1,
                        !.warned_fallback = TRUE,
                        !.fallback_keyword = TRUE,
                        !.routing_backend = "keyword"]
        ELSE [st EXCEPT !.ops = Append(@, [op |-> "upsert", ids |-> ids, ok |-> TRUE]),
                        !.store = UpsertAll(@, docs, metadatas, ids)]

ingest_resume(st, text, fails) ==
   IF text = << >> THEN st
   ELSE _upsert(st, <<Prefix(text, 12000)>>, <<[doc_type |-> "resume"]>>,
                <<(<<"resume", _hash(text)>>)>>, fails)

ingest_job_description(st, text, fails) ==
   IF text = << >> THEN st
   ELSE _upsert(st, <<Prefix(text, 12000)>>, <<[doc_type |-> "job_desc"]>>,
                <<(<<"job", _hash(text)>>)>>, fails)

RECURSIVE SeedLabels(_, _, _)
SeedLabels(st, i, fails) ==
   IF i > Len(TASK_LABELS) THEN st
   ELSE LET t == TASK_LABELS[i]
        IN  SeedLabels(_upsert(st, <<(<<t.label, ": ", t.desc>>)>>,
                               <<[doc_type |-> "task_label", task_index |-> t.idx,
                                  label |-> t.label]>>,
                               <<(<<"task", t.idx, t.label>>)>>, fails),
                       i + 1, fails)

\* ensure_task_labels, were the keyword flag not looked at.
ensure_task_labels_unguarded(st, fails) == SeedLabels(st, 1, fails)

ensure_task_labels(st, fails) ==
   IF st.fallback_keyword THEN st ELSE SeedLabels(st, 1, fails)

add_query_history(st, query, fails) ==
   IF query = << >> THEN st
   ELSE _upsert(st, <<query>>, <<[doc_type |-> "query"]>>,
                <<(<<"q", _hash(query)>>)>>, fails)

Increment(counts, label) ==
   [l \in (DOMAIN counts) \cup {label} |->
      IF l = label THEN Get(counts, label, 0) + 1 ELSE counts[l]]

\* KeywordLabel, were the suggestion keywords tested before the interview
\* keywords.
KeywordLabel_suggest_first(query) ==
   LET q == lower(query)
   IN  IF In(KW_suggest, q) \/ In(KW_improve, q) \/ In(KW_optimiz, q)
       THEN [idx |-> 2, label |-> "suggestions"]
       ELSE IF In(KW_interview, q) \/ In(KW_question, q)
            THEN [idx |-> 1, label |-> "interview"]
       ELSE IF In(KW_fit, q) \/ In(KW_score, q) \/ In(KW_match, q)
            THEN [idx |-> 3, label |-> "job_fit"]
       ELSE [idx |-> 0, label |-> "analysis"]

\* The keyword heuristic of route(): substring tests on the lowered query,
\* first match wins.
KeywordLabel(query) ==
   LET q == lower(query)
   IN  IF In(KW_interview, q) \/ In(KW_question, q) THEN [idx |-> 1, label |-> "interview"]
       ELSE IF In(KW_suggest, q) \/ In(KW_improve, q) \/ In(KW_optimiz, q)
            THEN [idx |-> 2, label |-> "suggestions"]
       ELSE IF In(KW_fit, q) \/ In(KW_score, q) \/ In(KW_match, q)
            THEN [idx |-> 3, label |-> "job_fit"]
       ELSE [idx |-> 0, label |-> "analysis"]

RouteKeyword(st, query) ==
   LET t == KeywordLabel(query)
   IN  [st EXCEPT !.route_counts[t.label] = @ + 1,
                  !.ret = RouteResult(t.idx, t.label, 5, << >>)]

Min3(a, b, c) == IF a <= b /\ a <= c THEN a ELSE IF b <= c THEN b ELSE c

\* Candidates, were the task index taken from the neighbour's rank instead
\* of its metadata.
RECURSIVE Candidates_rank_index(_, _, _, _)
Candidates_rank_index(metas, dists, i, n) ==
   IF i > n THEN << >>
   ELSE LET m == metas[i]
            d == dists[i]
            rest == Candidates_rank_index(metas, dists, i + 1, n)
        IN  IF DOMAIN m = {} THEN rest
            ELSE IF Get(m, "doc_type", NoneValue) = "task_label"
                 THEN <<[task_index |-> i,
                         label |-> Get(m, "label", "analysis"),
                         score |-> IF d \in Int THEN 10 - d ELSE 0]>> \o rest
                 ELSE rest

\* Candidates, were the label read from the doc_type key of the metadata.
RECURSIVE Candidates_label_of_type(_, _, _, _)
Candidates_label_of_type(metas, dists, i, n) ==
   IF i > n THEN << >>
   ELSE LET m == metas[i]
            d == dists[i]
            rest == Candidates_label_of_type(metas, dists, i + 1, n)
        IN  IF DOMAIN m = {} THEN rest
            ELSE IF Get(m, "doc_type", NoneValue) = "task_label"
                 THEN <<[task_index |-> Get(m, "task_index", 0),
                         label |-> Get(m, "doc_type", "analysis"),
                         score |-> IF d \in Int THEN 10 - d ELSE 0]>> \o rest
                 ELSE rest

\* Candidates, were the doc_type of a neighbour not looked at.
RECURSIVE Candidates_unfiltered(_, _, _, _)
Candidates_unfiltered(metas, dists, i, n) ==
   IF i > n THEN << >>
   ELSE LET m == metas[i]
            d == dists[i]
            rest == Candidates_unfiltered(metas, dists, i + 1, n)
        IN  IF DOMAIN m = {} THEN rest
            ELSE <<[task_index |-> Get(m, "task_index", 0),
                    label |-> Get(m, "label", "analysis"),
                    score |-> IF d \in Int THEN 10 - d ELSE 0]>> \o rest

\* The loop over zip(ids, metas, dists): task-label neighbours become
\* candidates with score 1 - d.  A missing metadata is the empty mapping.
RECURSIVE Candidates(_, _, _, _)
Candidates(metas, dists, i, n) ==
   IF i > n THEN << >>
   ELSE LET m == metas[i]
            d == dists[i]
            rest == Candidates(metas, dists, i + 1, n)
        IN  IF DOMAIN m = {} THEN rest
            ELSE IF Get(m, "doc_type", NoneValue) = "task_label"
                 THEN <<[task_index |-> Get(m, "task_index", 0),
                         label |-> Get(m, "label", "analysis"),
                         score |-> IF d \in Int THEN 10 - d ELSE 0]>> \o rest
                 ELSE rest

\* InsertByScore, were the sort ascending (reverse=True left out).
InsertByScore_ascending(sorted, c) ==
   LET n == Cardinality({i \in 1..Len(sorted) : sorted[i].score <= c.score})
   IN  SubSeq(sorted, 1, n) \o <<c>> \o SubSeq(sorted, n + 1, Len(sorted))

\* candidates.sort(key=score, reverse=True): a stable sort, highest first.
InsertByScore(sorted, c) ==
   LET n == Cardinality({i \in 1..Len(sorted) : sorted[i].score >= c.score})
   IN  SubSeq(sorted, 1, n) \o <<c>> \o SubSeq(sorted, n + 1, Len(sorted))

RECURSIVE SortCandidates(_, _)
SortCandidates(cands, acc) ==
   IF cands = << >> THEN acc
   ELSE SortCandidates(Tail(cands), InsertByScore(acc, Head(cands)))

\* RouteVector, were the default answer for no candidates left uncounted.
RouteVector_default_uncounted(st, query, results, fails) ==
   LET ids == results.ids
       metas == results.metadatas
       dists == IF results.distances # << >> THEN results.distances
                ELSE Get(results, "embeddings", << >>)
       candidates == Candidates(metas, dists, 1, Min3(Len(ids), Len(metas), Len(dists)))
   IN  IF candidates = << >>
       THEN [st EXCEPT !.ret = RouteResult(0, "analysis", 0, << >>)]
       ELSE LET sorted == SortCandidates(candidates, << >>)
                top == Head(sorted)
                alt == Tail(sorted)
                s1 == add_query_history(st, query, fails)
            IN  [s1 EXCEPT !.route_counts = Increment(@, top.label),
                           !.ret = RouteResult(top.task_index, top.label, top.score, alt)]

\* RouteVector, were a failed history upsert to turn the answer into the
\* keyword rules' answer.
RouteVector_history_decides(st, query, results, fails) ==
   LET ids == results.ids
       metas == results.metadatas
       dists == IF results.distances # << >> THEN results.distances
                ELSE Get(results, "embeddings", << >>)
       candidates == Candidates(metas, dists, 1, Min3(Len(ids), Len(metas), Len(dists)))
   IN  IF candidates = << >>
       THEN [st EXCEPT !.route_counts["analysis"] = @ + 1,
                       !.ret = RouteResult(0, "analysis", 0, << >>)]
       ELSE LET sorted == SortCandidates(candidates, << >>)
                top == Head(sorted)
                alt == Tail(sorted)
                s1 == add_query_history(st, query, fails)
            IN  IF ~s1.ops[Len(s1.ops)].ok
                THEN RouteKeyword(s1, query)
                ELSE [s1 EXCEPT !.route_counts = Increment(@, top.label),
                                !.ret = RouteResult(top.task_index, top.label, top.score, alt)]

\* RouteVector, were a response without task labels answered by the
\* keyword rules.
RouteVector_default_by_keyword(st, query, results, fails) ==
   LET ids == results.ids
       metas == results.metadatas
       dists == IF results.distances # << >> THEN results.distances
                ELSE Get(results, "embeddings", << >>)
       candidates == Candidates(metas, dists, 1, Min3(Len(ids), Len(metas), Len(dists)))
   IN  IF candidates = << >>
       THEN RouteKeyword(st, query)
       ELSE LET sorted == SortCandidates(candidates, << >>)
                top == Head(sorted)
                alt == Tail(sorted)
                s1 == add_query_history(st, query, fails)
            IN  [s1 EXCEPT !.route_counts = Increment(@, top.label),
                           !.ret = RouteResult(top.task_index, top.label, top.score, alt)]

\* The tail of route() after a successful query.
RouteVector(st, query, results, fails) ==
   LET ids == results.ids
       metas == results.metadatas
       dists == IF results.distances # << >> THEN results.distances
                ELSE Get(results, "embeddings", << >>)
       candidates == Candidates(metas, dists, 1, Min3(Len(ids), Len(metas), Len(dists)))
   IN  IF candidates = << >>
       THEN [st EXCEPT !.route_counts["analysis"] = @ + 1,
                       !.ret = RouteResult(0, "analysis", 0, << >>)]
       ELSE LET sorted == SortCandidates(candidates, << >>)
                top == Head(sorted)
                alt == Tail(sorted)
                s1 == add_query_history(st, query, fails)
            IN  [s1 EXCEPT !.route_counts = Increment(@, top.label),
                           !.ret = RouteResult(top.task_index, top.label, top.score, alt)]

RECURSIVE route(_, _, _, _, _)
route(st, query, k, fails, metric) ==
   IF query = << >> THEN [st EXCEPT !.ret = RouteResult(0, "analysis", 0, << >>)]
   ELSE IF st.fallback_keyword THEN RouteKeyword(st, query)
   ELSE LET s1 == ensure_task_labels(st, fails)
        IN  IF s1.collection = NoneValue
            THEN route([s1 EXCEPT !.fallback_keyword = TRUE, !.routing_backend = "keyword"],
                       query, k, fails, metric)
            ELSE IF (Len(s1.ops) + 1) \in fails
                 THEN route([s1 EXCEPT
                               !.ops = Append(@, [op |-> "query", ids |-> << >>, ok |-> FALSE]),
                               !.warnings = IF s1.warned_fallback THEN @ ELSE @ + 1,
                               !.warned_fallback = TRUE,
                               !.fallback_keyword = TRUE,
                               !.routing_backend = "keyword"],
                            query, k, fails, metric)
                 ELSE LET results == CollectionQuery(s1.store, metric, k)
                      IN  RouteVector([s1 EXCEPT
                                         !.ops = Append(@, [op |-> "query", ids |-> << >>,
                                                            ok |-> TRUE, results |-> results])],
                                      query, results, fails)

routing_backend(st) == [st EXCEPT !.ret = st.routing_backend]

\* stats, were it to return self._route_counts itself.
stats_live(st) == [st EXCEPT !.ret = st.route_counts, !.ret_alias = TRUE]

\* dict(self._route_counts): a new mapping, not the router's own.
stats(st) == [st EXCEPT !.ret = st.route_counts, !.ret_alias = FALSE]

\* ----------------------------------------------------------- construction
\* What the environment does during __init__: whether chromadb imported,
\* whether a directory was given, whether each client and collection call
\* succeeds, whether the collection found lacks an embedding function, and
\* which words the message of the collection error contains.
ConstructEnvs ==
   [chroma_available : BOOLEAN, persist_dir : BOOLEAN, client_ok : BOOLEAN,
    ephemeral_ok : BOOLEAN, get_ok : BOOLEAN, create_ok : BOOLEAN,
    embedding_none : BOOLEAN, recreate_ok : BOOLEAN, msg_type : BOOLEAN,
    msg_name : BOOLEAN, alt_ok : BOOLEAN, last_ok : BOOLEAN]

Raised == [raised |-> TRUE, fallback_keyword |-> FALSE, routing_backend |-> "keyword",
           collection |-> NoneValue]

\* KeywordOnly, were _routing_backend not pre-initialised to "keyword".
KeywordOnly_unset_backend ==
   [raised |-> FALSE, fallback_keyword |-> TRUE, routing_backend |-> "chroma",
    collection |-> NoneValue]

KeywordOnly == [raised |-> FALSE, fallback_keyword |-> TRUE, routing_backend |-> "keyword",
                collection |-> NoneValue]

VectorReady == [raised |-> FALSE, fallback_keyword |-> FALSE, routing_backend |-> "chroma",
                collection |-> "vocaresume_router"]

\* The try block of lines 132-141 ends without an exception.
CollectionBuilt(env) ==
   /\ env.get_ok \/ env.create_ok
   /\ env.embedding_none => env.recreate_ok

\* The handler of lines 142-165, entered with the collection error e.
CollectionRecovery(env) ==
   IF (env.msg_type /\ ~env.alt_ok) THEN KeywordOnly
   ELSE IF env.msg_name
        THEN IF env.last_ok THEN VectorReady ELSE Raised
        ELSE Raised

__init__(env) ==
   IF ~env.chroma_available THEN Raised
   ELSE IF ~env.client_ok /\ ~env.ephemeral_ok THEN KeywordOnly
   ELSE IF CollectionBuilt(env) THEN VectorReady
   ELSE CollectionRecovery(env)

\* ------------------------------------------------------------------ state
VARIABLES
   phase,              \* "new", "ready" (a router was returned) or "raised"
   _fallback_keyword,  \* self._fallback_keyword
   _routing_backend,   \* self._routing_backend
   _warned_fallback,   \* self._warned_fallback
   _route_counts,      \* self._route_counts
   collection,         \* self.collection (NoneValue when None or unset)
   store,              \* the documents of the collection
   warnings,           \* operational warnings emitted so far
   n_routes,           \* route() calls with a non-empty query so far
   ingested,           \* the (operation, text) pairs of the non-empty ingest calls so far
   _VECTOR_ROUTER,     \* tasks.task_factory._VECTOR_ROUTER: NoneValue or "router", this router
   call                \* the call that has just returned, or Idle

vars == <<phase, _fallback_keyword, _routing_backend, _warned_fallback, _route_counts,
          collection, store, warnings, n_routes, ingested, _VECTOR_ROUTER, call>>

Idle == [op |-> "idle"]

\* The router at the start of a call.
Self ==
   [fallback_keyword |-> _fallback_keyword, routing_backend |-> _routing_backend,
    warned_fallback |-> _warned_fallback, route_counts |-> _route_counts,
    collection |-> collection, store |-> store, warnings |-> warnings,
    ops |-> << >>, ret |-> NoneValue, ret_alias |-> FALSE]

\* The sets of positions at which the store raises during a call of at
\* most n store operations.
FailSets(n) == {F \in SUBSET (1..n) : Cardinality(F) <= MaxFails}

\* A call returns: the router's attributes and the store are those it left,
\* and the call is recorded with the state it started from.
Returns(op, arg, st) ==
   /\ _fallback_keyword' = st.fallback_keyword
   /\ _routing_backend' = st.routing_backend
   /\ _warned_fallback' = st.warned_fallback
   /\ _route_counts' = st.route_counts
   /\ collection' = st.collection
   /\ store' = st.store
   /\ warnings' = st.warnings
   /\ call' = [op |-> op, arg |-> arg, ret |-> st.ret, raised |-> FALSE, ops |-> st.ops,
               alias |-> st.ret_alias,
               pre |-> [fallback_keyword |-> _fallback_keyword,
                        routing_backend |-> _routing_backend,
                        route_counts |-> _route_counts,
                        store |-> store, ingested |-> ingested]]

Init ==
   /\ phase = "new"
   /\ _fallback_keyword = FALSE
   /\ _routing_backend = "keyword"
   /\ _warned_fallback = FALSE
   /\ _route_counts = [l \in Labels |-> 0]
   /\ collection = NoneValue
   /\ store = EmptyStore
   /\ warnings = 0
   /\ n_routes = 0
   /\ ingested = {}
   /\ _VECTOR_ROUTER = NoneValue
   /\ call = Idle

\* init_router(persist_dir) / VectorRouter(persist_dir).  The collection is
\* new: deleting and recreating it during construction leaves it empty.
Construct ==
   /\ phase = "new"
   /\ \E env \in ConstructEnvs :
         LET r == __init__(env)
         IN  /\ phase' = IF r.raised THEN "raised" ELSE "ready"
             /\ _fallback_keyword' = r.fallback_keyword
             /\ _routing_backend' = r.routing_backend
             /\ collection' = r.collection
             /\ call' = [op |-> "init", arg |-> env, ret |-> NoneValue,
                         raised |-> r.raised, ops |-> << >>, alias |-> FALSE,
                         pre |-> [fallback_keyword |-> _fallback_keyword,
                                  routing_backend |-> _routing_backend,
                                  route_counts |-> _route_counts,
                                  store |-> store, ingested |-> ingested]]
   /\ UNCHANGED <<_VECTOR_ROUTER, _warned_fallback, _route_counts, store, warnings,
                  n_routes, ingested>>

Ready == phase = "ready" /\ call = Idle

IngestResume ==
   /\ Ready
   /\ \E text \in ResumeTexts, fails \in FailSets(1) :
         /\ Returns("ingest_resume", text, ingest_resume(Self, text, fails))
         /\ ingested' = IF text = << >> THEN ingested
                         ELSE ingested \cup {<<"ingest_resume", text>>}
   /\ UNCHANGED <<_VECTOR_ROUTER, phase, n_routes>>

IngestJobDescription ==
   /\ Ready
   /\ \E text \in JobTexts, fails \in FailSets(1) :
         /\ Returns("ingest_job_description", text, ingest_job_description(Self, text, fails))
         /\ ingested' = IF text = << >> THEN ingested
                         ELSE ingested \cup {<<"ingest_job_description", text>>}
   /\ UNCHANGED <<_VECTOR_ROUTER, phase, n_routes>>

EnsureTaskLabels ==
   /\ Ready
   /\ \E fails \in FailSets(Len(TASK_LABELS)) :
         Returns("ensure_task_labels", NoneValue, ensure_task_labels(Self, fails))
   /\ UNCHANGED <<_VECTOR_ROUTER, phase, n_routes, ingested>>

AddQueryHistory ==
   /\ Ready
   /\ \E query \in Queries, fails \in FailSets(1) :
         Returns("add_query_history", query, add_query_history(Self, query, fails))
   /\ UNCHANGED <<_VECTOR_ROUTER, phase, n_routes, ingested>>

\* The store operations a route() call can issue: none on the keyword path,
\* else the label upserts, one query and one history upsert.
RouteOps == IF _fallback_keyword THEN 0 ELSE Len(TASK_LABELS) + 2

\* route(query) with the default k, for a query of the set Q.
RouteCall(Q) ==
   /\ Ready
   /\ \E query \in Q, fails \in FailSets(RouteOps),
         metric \in IF RouteOps = 0 THEN {[c \in Classes |-> 3]} ELSE Metrics :
         /\ query # << >> => n_routes < MaxRoutes
         /\ Returns("route", query, route(Self, query, DefaultK, fails, metric))
         /\ n_routes' = IF query # << >> THEN n_routes + 1 ELSE n_routes
   /\ UNCHANGED <<_VECTOR_ROUTER, phase, ingested>>

Route == RouteCall(Queries)

Stats ==
   /\ Ready
   /\ Returns("stats", NoneValue, stats(Self))
   /\ UNCHANGED <<_VECTOR_ROUTER, phase, n_routes, ingested>>

RoutingBackend ==
   /\ Ready
   /\ Returns("routing_backend", NoneValue, routing_backend(Self))
   /\ UNCHANGED <<_VECTOR_ROUTER, phase, n_routes, ingested>>

\* The caller writes into the mapping stats() returned to it.  The router's
\* counts change with it only if the mapping is the router's own.
WriteReturnedStats ==
   /\ call.op = "stats"
   /\ \E label \in Labels :
         /\ call' = [call EXCEPT !.op = "stats_written", !.ret[label] = @ + 1]
         /\ _route_counts' = IF call.alias THEN [_route_counts EXCEPT ![label] = @ + 1]
                              ELSE _route_counts
   /\ UNCHANGED <<_VECTOR_ROUTER, phase, _fallback_keyword, _routing_backend, _warned_fallback,
                  collection, store, warnings, n_routes, ingested>>

\* The caller takes the result; the router waits for the next call.
Return ==
   /\ call # Idle
   /\ call' = Idle
   /\ UNCHANGED <<_VECTOR_ROUTER, phase, _fallback_keyword, _routing_backend, _warned_fallback,
                  _route_counts, collection, store, warnings, n_routes, ingested>>

Next ==
   \/ Construct
   \/ IngestResume
   \/ IngestJobDescription
   \/ EnsureTaskLabels
   \/ AddQueryHistory
   \/ Route
   \/ Stats
   \/ RoutingBackend
   \/ WriteReturnedStats
   \/ Return

Spec == Init /\ [][Next]_vars

\* ------------------------------------------------- the keyword classifier
\* A router in the keyword state, however it got there: built without a
\* client (no collection), or degraded by a failed store operation.  Its
\* route() is put to every query of WordQueries.
KeywordInit ==
   /\ phase = "ready"
   /\ _fallback_keyword = TRUE
   /\ _routing_backend = "keyword"
   /\ \/ _warned_fallback = FALSE /\ collection = NoneValue /\ warnings = 0
      \/ _warned_fallback = TRUE /\ collection = "vocaresume_router" /\ warnings = 1
   /\ _route_counts = [l \in Labels |-> 0]
   /\ store = EmptyStore
   /\ n_routes = 0
   /\ ingested = {}
   /\ _VECTOR_ROUTER = NoneValue
   /\ call = Idle

RouteWords == RouteCall(WordQueries)

KeywordNext ==
   \/ RouteWords
   \/ Return

KeywordSpec == KeywordInit /\ [][KeywordNext]_vars

\* ------------------------------------------------------------ two sessions
\* The app builds one router per session, each with
\* init_router(persist_dir=".chroma_store"): the persistent clients of two
\* sessions open the same directory and get the same collection
\* "vocaresume_router", so `store` is the one collection both write to.
\* The router of the state variables is session B's, built with the
\* persistent client; A is the router of another session.
T_peer_job == <<"j", "2">>

PeerJobTexts == {T_peer_job}

SessionsInit ==
   /\ phase = "ready"
   /\ _fallback_keyword = FALSE
   /\ _routing_backend = "chroma"
   /\ _warned_fallback = FALSE
   /\ _route_counts = [l \in Labels |-> 0]
   /\ collection = "vocaresume_router"
   /\ store = EmptyStore
   /\ warnings = 0
   /\ n_routes = 0
   /\ ingested = {}
   /\ _VECTOR_ROUTER = NoneValue
   /\ call = Idle

\* Router A as its construction left it, on the shared collection.
Peer ==
   [fallback_keyword |-> VectorReady.fallback_keyword,
    routing_backend |-> VectorReady.routing_backend,
    warned_fallback |-> FALSE, route_counts |-> [l \in Labels |-> 0],
    collection |-> VectorReady.collection, store |-> store, warnings |-> 0,
    ops |-> << >>, ret |-> NoneValue, ret_alias |-> FALSE]

\* Session A's vr.ingest_job_description(input_text), with a working store.
\* Of session B only the collection's contents can change.
PeerIngestJobDescription ==
   /\ Ready
   /\ \E text \in PeerJobTexts :
         LET a == ingest_job_description(Peer, text, {})
         IN  /\ store' = a.store
             /\ call' = [op |-> "peer_ingest_job_description", arg |-> text,
                         ret |-> a.ret, raised |-> FALSE, ops |-> a.ops, alias |-> FALSE,
                         pre |-> [fallback_keyword |-> _fallback_keyword,
                                  routing_backend |-> _routing_backend,
                                  route_counts |-> _route_counts,
                                  store |-> store, ingested |-> ingested]]
   /\ UNCHANGED <<_VECTOR_ROUTER, phase, _fallback_keyword, _routing_backend, _warned_fallback,
                  _route_counts, collection, warnings, n_routes, ingested>>

SessionsNext ==
   \/ PeerIngestJobDescription
   \/ IngestJobDescription
   \/ Route
   \/ Stats
   \/ Return

SessionsSpec == SessionsInit /\ [][SessionsNext]_vars

\* ----------------------------------------------------------------- claims
\* What routing_backend() would return now.
Reported == routing_backend(Self).ret

\* str.strip() == "": the empty query and the all-blank query.
IsBlank(query) == \A i \in 1..Len(query) : query[i] = " "

FailedOps == {i \in 1..Len(call.ops) : ~call.ops[i].ok}

LabelUpsert(o) == o.op = "upsert" /\ o.ids[1][1] = "task"

HasAny(ws, query) == \E w \in ws : In(w, lower(query))

RECURSIVE SumOver(_, _)
SumOver(f, S) ==
   IF S = {} THEN 0
   ELSE LET x == CHOOSE y \in S : TRUE IN f[x] + SumOver(f, S \ {x})

\* C1: on one router, once routing_backend() reports "keyword" it never
\* reports "chroma" again, whatever call comes next and whether or not the
\* store operations of that call succeed.
C1_MonotonicFallback ==
   [][(phase = "ready" /\ Reported = "keyword") => Reported' = "keyword"]_vars

\* A call that started in the keyword state, wrote to the store with
\* success, and left the router in the keyword state.
C1_Witness ==
   /\ call.op \in {"ingest_resume", "ingest_job_description", "add_query_history"}
   /\ call.pre.routing_backend = "keyword"
   /\ \E i \in 1..Len(call.ops) : call.ops[i].ok
   /\ Reported = "keyword"

\* C2: route() of a non-empty query returns a result without raising, in
\* every router state and whether the store's upserts and query succeed or
\* raise; the task index is one of 0..3 and the score is a number.
C2_RouteAlwaysAnswers ==
   (call.op = "route" /\ call.arg # << >>) =>
      /\ ~call.raised
      /\ call.ret.task_index \in {TASK_LABELS[i].idx : i \in 1..Len(TASK_LABELS)}
      /\ call.ret.score \in Int

\* A route() that started on the vector path, met a failing store
\* operation, and answered job_fit.
C2_Witness ==
   /\ call.op = "route" /\ call.arg # << >>
   /\ ~call.pre.fallback_keyword
   /\ FailedOps # {}
   /\ call.ret.task_index = 3

\* C3: when a task-label upsert or the query raises during a route() that
\* started in the vector state, the router is in the keyword state when the
\* call returns and the result is the keyword rules' result for the query
\* (score 0.5, no alternatives).
C3_FailoverAnswersByKeyword ==
   (/\ call.op = "route" /\ ~IsBlank(call.arg)
    /\ call.pre.routing_backend = "chroma"
    /\ \E i \in FailedOps : call.ops[i].op = "query" \/ LabelUpsert(call.ops[i]))
   => /\ Reported = "keyword"
      /\ call.ret = RouteResult(KeywordLabel(call.arg).idx, KeywordLabel(call.arg).label,
                                5, << >>)

\* C4: once the router is in the keyword state, no ingest_resume,
\* ingest_job_description or route call issues an upsert or a query to the
\* store.
C4_KeywordStateLeavesStoreAlone ==
   (/\ call.op \in {"ingest_resume", "ingest_job_description", "route"}
    /\ call.pre.routing_backend = "keyword")
   => call.ops = << >>

\* C5: route() of the empty query and of a whitespace-only query returns
\* (0, "analysis", 0.0, []) in every router state.
C5_BlankQueryDefault ==
   (call.op = "route" /\ IsBlank(call.arg)) =>
      call.ret = RouteResult(0, "analysis", 0, << >>)

\* C6: route() of an empty or whitespace-only query changes nothing: the
\* backend, every route count and the store are as before the call, and no
\* upsert or query is issued.
C6_BlankQueryNoEffect ==
   (call.op = "route" /\ IsBlank(call.arg)) =>
      /\ Reported = call.pre.routing_backend
      /\ _route_counts = call.pre.route_counts
      /\ store = call.pre.store
      /\ call.ops = << >>

\* C7: in the keyword state route() of a non-empty query answers by the
\* first rule that matches, in the order interview (interview, question),
\* suggestions (suggest, improve, optimiz), job_fit (fit, score, match),
\* else analysis, always with score 0.5 and no alternatives; a query with an
\* interview and a suggestion keyword goes to interview, and "fit Score"
\* gives (3, "job_fit", 0.5, []).
C7_KeywordRules ==
   (call.op = "route" /\ call.arg # << >> /\ call.pre.fallback_keyword) =>
      /\ call.ret.score = 5
      /\ call.ret.alt = << >>
      /\ <<call.ret.task_index, call.ret.label>> =
            IF HasAny({KW_interview, KW_question}, call.arg) THEN <<1, "interview">>
            ELSE IF HasAny({KW_suggest, KW_improve, KW_optimiz}, call.arg)
                 THEN <<2, "suggestions">>
            ELSE IF HasAny({KW_fit, KW_score, KW_match}, call.arg) THEN <<3, "job_fit">>
            ELSE <<0, "analysis">>
      /\ call.arg \in {W_interview \o <<" ">> \o W_improve, W_improve \o <<" ">> \o W_interview}
            => call.ret.label = "interview"
      /\ call.arg = W_fit \o <<" ">> \o W_score
            => call.ret = RouteResult(3, "job_fit", 5, << >>)

\* The keyword state has answered "improve Interview" with interview.
C7_Witness ==
   /\ call.op = "route" /\ call.pre.fallback_keyword
   /\ call.arg = W_improve \o <<" ">> \o W_interview
   /\ call.ret = RouteResult(1, "interview", 5, << >>)

\* C8: every route() of a non-empty query adds exactly 1 to the count of
\* the label it returns and leaves the other counts alone, on the vector
\* path, on the keyword path and when the vector path fails over; so the
\* values of stats() sum to the number of such calls.
C8_OneCountPerRoute ==
   /\ SumOver(stats(Self).ret, DOMAIN stats(Self).ret) = n_routes
   /\ (call.op = "route" /\ call.arg # << >>) =>
         /\ DOMAIN _route_counts = DOMAIN call.pre.route_counts
         /\ \A l \in DOMAIN _route_counts :
               _route_counts[l] =
                  call.pre.route_counts[l] + (IF l = call.ret.label THEN 1 ELSE 0)

\* The last of MaxRoutes route() calls failed over from the vector path to
\* the keyword rules.
C8_Witness ==
   /\ call.op = "route" /\ call.arg # << >>
   /\ n_routes = MaxRoutes
   /\ ~call.pre.fallback_keyword
   /\ \E i \in FailedOps : call.ops[i].op = "query"

\* C9: a second or later ingest_resume(text) or ingest_job_description(text)
\* with the same non-empty text leaves the store with the same document ids,
\* and so the same document count, as the call before it left.
C9_IngestIdempotent ==
   (/\ call.op \in {"ingest_resume", "ingest_job_description"}
    /\ <<call.op, call.arg>> \in call.pre.ingested)
   => DOMAIN store = DOMAIN call.pre.store

Queried == \E i \in 1..Len(call.ops) : call.ops[i].op = "query" /\ call.ops[i].ok

QueryResults ==
   call.ops[CHOOSE i \in 1..Len(call.ops) : call.ops[i].op = "query" /\ call.ops[i].ok].results

\* The positions of the task-label neighbours in the response.
LabelHits ==
   {i \in 1..Len(QueryResults.ids) :
       Get(QueryResults.metadatas[i], "doc_type", NoneValue) = "task_label"}

\* The call was a route() that answered from the neighbours of its query.
VectorAnswer == call.op = "route" /\ Queried /\ LabelHits # {}

\* C11: the score of every RouteResult lies in [0, 1] (0..10 tenths), for
\* every distance the store can return.
C11_ScoreInUnitInterval ==
   (call.op = "route" /\ ~IsBlank(call.arg) /\ FailedOps = {}) =>
      (call.ret.score >= 0 /\ call.ret.score <= 10)

\* The chosen candidate followed by the alternatives of the result.
Ranked ==
   <<[task_index |-> call.ret.task_index, label |-> call.ret.label,
      score |-> call.ret.score]>> \o call.ret.alt

\* The candidate a task-label neighbour at position i of the response makes.
HitCandidate(i) ==
   [task_index |-> QueryResults.metadatas[i].task_index,
    label |-> QueryResults.metadatas[i].label,
    score |-> 10 - QueryResults.distances[i]]

\* C12: only neighbours whose doc_type is 'task_label' become candidates: the
\* chosen route and the alternatives are task-label neighbours of the
\* response and as many as those, however near the resume, job-description
\* and query-history documents of the response are.
C12_OnlyTaskLabelsAreCandidates ==
   (call.op = "route" /\ Queried) =>
      IF LabelHits = {}
      THEN call.ret = RouteResult(0, "analysis", 0, << >>)
      ELSE /\ Len(Ranked) = Cardinality(LabelHits)
           /\ \A j \in 1..Len(Ranked) : \E i \in LabelHits : Ranked[j] = HitCandidate(i)

\* A route() whose nearest neighbour was not a task label, strictly nearer
\* than the label it chose.
C12_Witness ==
   /\ VectorAnswer
   /\ Get(QueryResults.metadatas[1], "doc_type", NoneValue) # "task_label"
   /\ 10 - QueryResults.distances[1] > call.ret.score

\* C13: when the response holds at least one task-label neighbour, the
\* chosen route is a candidate of maximal score, the alternatives are all
\* the other candidates in non-increasing order of score, the chosen
\* candidate is not among the alternatives, and the score of the result is
\* at least the score of every alternative.
C13_ChosenIsBestAlternativesSorted ==
   VectorAnswer =>
      LET alt == call.ret.alt
      IN  /\ \A i \in LabelHits : call.ret.score >= HitCandidate(i).score
          /\ \E i \in LabelHits : Ranked[1] = HitCandidate(i)
          /\ \A i \in LabelHits : \E j \in 1..Len(Ranked) : Ranked[j] = HitCandidate(i)
          /\ Len(alt) = Cardinality(LabelHits) - 1
          /\ \A j \in 1..Len(alt) : alt[j] # Ranked[1]
          /\ \A j \in 1..(Len(alt) - 1) : alt[j].score >= alt[j + 1].score
          /\ \A j \in 1..Len(alt) : call.ret.score >= alt[j].score

\* A route() that chose among task labels at different distances.
C13_Witness ==
   /\ VectorAnswer
   /\ Len(call.ret.alt) >= 2
   /\ call.ret.score > call.ret.alt[Len(call.ret.alt)].score
   /\ call.ret.alt[1].score > call.ret.alt[Len(call.ret.alt)].score

\* C14: in the vector state with a working store, after successful
\* ingest_resume / ingest_job_description calls, route(query) with the
\* default k returns alternatives holding exactly the three taxonomy labels
\* other than the chosen one, in descending order of score.
C14_AlternativesAreTheOtherThree ==
   (/\ call.op = "route" /\ ~IsBlank(call.arg)
    /\ ~call.pre.fallback_keyword
    /\ FailedOps = {}
    /\ \A id \in DOMAIN call.pre.store : id[1] \in {"task", "resume", "job"}) =>
      LET alt == call.ret.alt
      IN  /\ Len(alt) = Cardinality(Labels) - 1
          /\ {alt[j].label : j \in 1..Len(alt)} = Labels \ {call.ret.label}
          /\ \A j \in 1..(Len(alt) - 1) : alt[j].score >= alt[j + 1].score

\* The last store operation of the call was the query-history upsert and it
\* raised.
HistoryUpsertFailed ==
   /\ call.ops # << >>
   /\ LET o == call.ops[Len(call.ops)]
      IN  o.op = "upsert" /\ o.ids[1][1] = "q" /\ ~o.ok

\* C15: when the query of a route() succeeds with at least one task-label
\* candidate and the query-history upsert that follows raises, route() does
\* not raise and returns the RouteResult it would have returned had the
\* history upsert succeeded.
C15_HistoryFailureKeepsResult ==
   (VectorAnswer /\ HistoryUpsertFailed) =>
      /\ ~call.raised
      /\ call.ret = RouteVector(Self, call.arg, QueryResults, {}).ret
      /\ Ranked[1] = HitCandidate(CHOOSE i \in LabelHits : \A j \in LabelHits : i <= j)

\* A route() whose history upsert raised and which answered with the
\* vector score of its nearest task label.
C15_Witness ==
   /\ VectorAnswer /\ HistoryUpsertFailed
   /\ call.ret.score = 7
   /\ call.ret.alt # << >>

\* The attributes of the router and the contents of its store.
RouterState ==
   <<_fallback_keyword, _routing_backend, _warned_fallback, _route_counts,
     collection, store, warnings>>

\* C16: stats() and routing_backend() are pure observers: a call of either
\* issues no store operation, changes no attribute of the router and returns
\* the counts, respectively the backend, as they are; and stats() returns a
\* snapshot copy: writing into the returned mapping changes neither the
\* router's counts nor what a later stats() returns.
C16_ObserversArePure ==
   [][/\ call'.op = "stats" =>
            /\ UNCHANGED RouterState
            /\ call'.ops = << >>
            /\ call'.ret = _route_counts
      /\ call'.op = "routing_backend" =>
            /\ UNCHANGED RouterState
            /\ call'.ops = << >>
            /\ call'.ret = _routing_backend
      /\ call'.op = "stats_written" =>
            /\ UNCHANGED RouterState
            /\ stats(Self)'.ret = stats(Self).ret]_vars

\* The caller has written into the mapping stats() returned after a route
\* was counted, and the mapping now differs from the router's counts.
C16_Witness ==
   /\ call.op = "stats_written"
   /\ call.ret # _route_counts
   /\ SumOver(_route_counts, Labels) > 0

\* The ids of the job-description documents session B ingested before the
\* call.
OwnJobIds ==
   {<<"job", _hash(p[2])>> : p \in {x \in call.pre.ingested : x[1] = "ingest_job_description"}}

\* C17: routers of different sessions share no mutable state: what session
\* A ingests changes nothing that can be observed through session B's
\* router, neither the result of B's stats() nor the documents B's queries
\* can return: a job-description document in the response to a query of B
\* is one B ingested.
C17_SessionsShareNothing ==
   /\ call.op = "peer_ingest_job_description" =>
         /\ stats(Self).ret = call.pre.route_counts
         /\ Reported = call.pre.routing_backend
   /\ (call.op = "route" /\ Queried) =>
         \A i \in 1..Len(QueryResults.ids) :
            QueryResults.ids[i][1] = "job" => QueryResults.ids[i] \in OwnJobIds

\* The (task_index, label) pairs of the taxonomy.
CanonicalPairs == {<<TASK_LABELS[i].idx, TASK_LABELS[i].label>> : i \in 1..Len(TASK_LABELS)}

\* C18: in every RouteResult, (task_index, label) is one of the four pairs
\* of the taxonomy and every entry of the alternatives carries one of the
\* four labels.
C18_ResultsComeFromTaxonomy ==
   call.op = "route" =>
      /\ <<call.ret.task_index, call.ret.label>> \in CanonicalPairs
      /\ \A j \in 1..Len(call.ret.alt) : call.ret.alt[j].label \in Labels

\* A route() that answered job_fit with the three other labels as
\* alternatives.
C18_Witness ==
   /\ call.op = "route"
   /\ <<call.ret.task_index, call.ret.label>> = <<3, "job_fit">>
   /\ {call.ret.alt[j].label : j \in 1..Len(call.ret.alt)} = Labels \ {"job_fit"}

\* The ids of the four task-label documents.
LabelIds == {<<"task", TASK_LABELS[i].idx, TASK_LABELS[i].label>> : i \in 1..Len(TASK_LABELS)}

\* C19: whenever route() issues a nearest-neighbour query, the four
\* task-label documents are in the store at that moment, and no task-label
\* upsert of the same call has failed before the query.
C19_TaxonomyBeforeSearch ==
   call.op = "route" =>
      \A i \in 1..Len(call.ops) :
         call.ops[i].op = "query" =>
            /\ \A j \in 1..(i - 1) : LabelUpsert(call.ops[j]) => call.ops[j].ok
            /\ LabelIds \subseteq
                  (DOMAIN call.pre.store) \cup
                     {call.ops[j].ids[1] : j \in {x \in 1..(i - 1) : call.ops[x].ok}}

\* C20: once the four task-label documents have been upserted with success
\* on a router, a later route() on that router upserts no task-label
\* document.
C20_SeedingGuarded ==
   (/\ call.op = "route"
    /\ LabelIds \subseteq DOMAIN call.pre.store) =>
      \A i \in 1..Len(call.ops) : ~LabelUpsert(call.ops[i])

\* The ids of the task-label documents of the store.
StoredLabelIds ==
   {id \in DOMAIN store : Get(store[id].metadata, "doc_type", NoneValue) = "task_label"}

\* C21: ensure_task_labels() is idempotent on the store: after a call in
\* the vector state with a working store, direct or through route() and
\* whatever the store held before, the store holds exactly one task-label
\* document per taxonomy entry, four in all, under the fixed ids; in the
\* keyword state ensure_task_labels() performs no store operation.
C21_SeedingIdempotent ==
   /\ (/\ call.op = "ensure_task_labels" \/ (call.op = "route" /\ call.arg # << >>)
       /\ ~call.pre.fallback_keyword
       /\ FailedOps = {}) =>
         /\ StoredLabelIds = LabelIds
         /\ Cardinality(StoredLabelIds) = Len(TASK_LABELS)
         /\ \A i \in 1..Len(TASK_LABELS) :
               Cardinality({id \in StoredLabelIds :
                               store[id].metadata.label = TASK_LABELS[i].label}) = 1
   /\ (call.op = "ensure_task_labels" /\ call.pre.fallback_keyword) =>
         /\ call.ops = << >>
         /\ store = call.pre.store

\* ensure_task_labels() called with success on a store that already held
\* the four task labels.
C21_Witness ==
   /\ call.op = "ensure_task_labels"
   /\ ~call.pre.fallback_keyword
   /\ LabelIds \subseteq DOMAIN call.pre.store
   /\ Len(call.ops) = Len(TASK_LABELS) /\ FailedOps = {}
   /\ StoredLabelIds = LabelIds

\* C22: over the life of a router, across any number of failing upserts and
\* failing queries in any order, at most one operational-failure warning is
\* emitted, and one has been emitted exactly when _warned_fallback is set.
C22_WarnedOnce ==
   /\ warnings <= 1
   /\ _warned_fallback <=> (warnings = 1)

\* A store operation failed on a router that an earlier failure had already
\* degraded, and one warning has been emitted in all.
C22_Witness ==
   /\ call.op \in {"ingest_resume", "ingest_job_description", "add_query_history"}
   /\ FailedOps # {}
   /\ call.pre.fallback_keyword /\ collection # NoneValue
   /\ warnings = 1

\* ---------------------------------------------------- the regex classifiers
\* A character the regular expression \w matches, on ASCII text.
WordChar(c) ==
   LET n == ord(c)
   IN  \/ n >= 48 /\ n <= 57
       \/ n >= 65 /\ n <= 90
       \/ n >= 97 /\ n <= 122
       \/ n = 95

\* has(word): re.search(rf"\b{re.escape(word)}\b", q) on a word made of
\* word characters: word occurs in q with no word character right before
\* and none right after.
has(word, q) ==
   \E i \in 1..(Len(q) - Len(word) + 1) :
      /\ SubSeq(q, i, i + Len(word) - 1) = word
      /\ i = 1 \/ ~WordChar(q[i - 1])
      /\ i + Len(word) > Len(q) \/ ~WordChar(q[i + Len(word)])

\* The keywords of the router's keyword branch.
RouterKeywords ==
   {KW_interview, KW_question, KW_suggest, KW_improve, KW_optimiz, KW_fit, KW_score, KW_match}

\* C23: the keyword fallback matches keywords on word boundaries: a query
\* in which keywords occur only as fragments of longer words, without a
\* boundary at both ends of the keyword, routes to analysis.
C23_KeywordsOnWordBoundaries ==
   (/\ call.op = "route" /\ ~IsBlank(call.arg)
    /\ call.pre.fallback_keyword
    /\ \A w \in RouterKeywords : ~has(w, lower(call.arg))) =>
      <<call.ret.task_index, call.ret.label>> = <<0, "analysis">>

C25_AlternateClientRecovers ==
   (/\ call.op = "init"
    /\ call.arg.chroma_available
    /\ call.arg.client_ok \/ call.arg.ephemeral_ok
    /\ ~CollectionBuilt(call.arg)
    /\ call.arg.msg_type /\ call.arg.alt_ok) =>
      /\ ~call.raised
      /\ phase = "ready"
      /\ ~_fallback_keyword /\ Reported = "chroma"
      /\ collection # NoneValue

\* ------------------------------------------------- tasks/task_factory.py
KW_questions == <<"q", "u", "e", "s", "t", "i", "o", "n", "s">>
KW_technical == <<"t", "e", "c", "h", "n", "i", "c", "a", "l">>
KW_resume == <<"r", "e", "s", "u", "m", "e">>
KW_enhance == <<"e", "n", "h", "a", "n", "c", "e">>
KW_suitability == <<"s", "u", "i", "t", "a", "b", "i", "l", "i", "t", "y">>

\* The fallback keyword logic of tasks/task_factory.get_task_from_query.
TasksKeywordMapping(query) ==
   LET q == lower(query)
   IN  IF \E w \in {KW_interview, KW_question, KW_questions, KW_technical} : has(w, q)
       THEN <<1, "interview">>
       ELSE IF \E w \in {KW_resume, KW_improve, KW_optimiz, KW_enhance} : has(w, q)
            THEN <<2, "suggestions">>
       ELSE IF \E w \in {KW_fit, KW_score, KW_match, KW_suitability} : has(w, q)
            THEN <<3, "job_fit">>
       ELSE <<0, "analysis">>

\* match['index'] and match['label'], match being what route() returned: a
\* RouteResult is a dataclass without __getitem__, so subscripting it raises
\* TypeError whatever the key.
RouteResultItem(match, key) == [raised |-> TRUE, value |-> NoneValue]

\* tasks/task_factory.get_task_from_query(query) with the module's
\* _VECTOR_ROUTER being `router` (NoneValue, or the router in state st).
\* The value is the router as the call left it, with ret the returned pair
\* beside the local `match` (NoneValue when route() was not called).
get_task_from_query(router, st, query, fails, metric) ==
   IF query = << >> THEN [st EXCEPT !.ret = [pair |-> <<0, "analysis">>, match |-> NoneValue]]
   ELSE IF router # NoneValue
        THEN LET s1 == route(st, query, DefaultK, fails, metric)
                 index == RouteResultItem(s1.ret, "index")
                 label == RouteResultItem(s1.ret, "label")
             IN  IF index.raised \/ label.raised
                 THEN [s1 EXCEPT !.ret = [pair |-> TasksKeywordMapping(query), match |-> s1.ret]]
                 ELSE [s1 EXCEPT !.ret = [pair |-> <<index.value, label.value>>, match |-> s1.ret]]
        ELSE [st EXCEPT !.ret = [pair |-> TasksKeywordMapping(query), match |-> NoneValue]]

\* configure_vector_router(router), with the router of the state variables.
ConfigureVectorRouter ==
   /\ Ready
   /\ _VECTOR_ROUTER = NoneValue
   /\ _VECTOR_ROUTER' = "router"
   /\ UNCHANGED <<phase, _fallback_keyword, _routing_backend, _warned_fallback,
                  _route_counts, collection, store, warnings, n_routes, ingested, call>>

GetTaskFromQuery ==
   /\ call = Idle
   /\ _VECTOR_ROUTER # NoneValue => phase = "ready"
   /\ LET n == IF _VECTOR_ROUTER = NoneValue THEN 0 ELSE RouteOps
      IN  \E query \in Queries, fails \in FailSets(n),
             metric \in IF n = 0 THEN {[c \in Classes |-> 3]} ELSE Metrics :
             /\ (query # << >> /\ _VECTOR_ROUTER # NoneValue) => n_routes < MaxRoutes
             /\ Returns("get_task_from_query", query,
                        get_task_from_query(_VECTOR_ROUTER, Self, query, fails, metric))
             /\ n_routes' = IF query # << >> /\ _VECTOR_ROUTER # NoneValue
                            THEN n_routes + 1 ELSE n_routes
   /\ UNCHANGED <<_VECTOR_ROUTER, phase, ingested>>

FactoryNext ==
   \/ Construct
   \/ ConfigureVectorRouter
   \/ GetTaskFromQuery
   \/ Return

FactorySpec == Init /\ [][FactoryNext]_vars

\* C26: when a router built by init_router has been injected with
\* configure_vector_router and its route(query) returns a result for a
\* non-empty query, get_task_from_query(query) returns the task index and
\* the label of that result.
C26_FactoryUsesRouter ==
   (/\ call.op = "get_task_from_query"
    /\ _VECTOR_ROUTER # NoneValue
    /\ ~IsBlank(call.arg)
    /\ FailedOps = {}) =>
      call.ret.pair = <<call.ret.match.task_index, call.ret.match.label>>

\* C27: the backend reported right after a route() is the backend that
\* produced the result of that call: after a result computed from vector
\* neighbours routing_backend() returns 'chroma', and when it returns
\* 'keyword' after a non-empty route() the result has score 0.5 and no
\* alternatives.  Stated for calls whose task-label upserts all succeeded.
C27_BackendMatchesResult ==
   (/\ call.op = "route" /\ ~IsBlank(call.arg)
    /\ \A i \in 1..Len(call.ops) : LabelUpsert(call.ops[i]) => call.ops[i].ok) =>
      /\ VectorAnswer => Reported = "chroma"
      /\ Reported = "keyword" => (call.ret.score = 5 /\ call.ret.alt = << >>)

\* C28: the two mode fields agree in every state of a constructed router:
\* routing_backend() returns 'keyword' exactly when _fallback_keyword is
\* set, and a route() of a non-empty query issues no store operation (it
\* answers by the keyword rules) exactly when the router reported 'keyword'
\* at the start of the call.
C28_ModeFieldsAgree ==
   /\ phase = "ready" => (Reported = "keyword" <=> _fallback_keyword)
   /\ (call.op = "route" /\ call.arg # << >>) =>
         /\ call.pre.routing_backend = "keyword" <=> call.pre.fallback_keyword
         /\ call.pre.routing_backend = "keyword" <=> call.ops = << >>
         /\ call.pre.routing_backend = "keyword" =>
               call.ret = RouteKeyword(Self, call.arg).ret

\* A router that a failed store operation degraded answered a route() by
\* the keyword rules, without a store operation, while reporting 'keyword'.
C28_Witness ==
   /\ call.op = "route" /\ ~IsBlank(call.arg)
   /\ call.pre.routing_backend = "keyword" /\ call.pre.fallback_keyword
   /\ collection # NoneValue /\ _warned_fallback
   /\ call.ops = << >>
   /\ Reported = "keyword"

\* C29: within one ensure_task_labels() or route() call, no store operation
\* follows a store operation that raised: a failed operation is the last
\* operation of its call.
C29_NoStoreOperationAfterFailure ==
   call.op \in {"ensure_task_labels", "route"} =>
      \A i \in FailedOps : i = Len(call.ops)

\* ---------------------------------------------- services/task_factory.py
\* services/task_factory.get_task_from_query(query).
services_get_task_from_query(query) ==
   IF query = << >> THEN <<0, "analysis">>
   ELSE LET q == lower(query)
        IN  IF \E w \in {KW_resume, KW_improve} : has(w, q) THEN <<2, "suggestions">>
            ELSE IF \E w \in {KW_fit, KW_score} : has(w, q) THEN <<3, "job_fit">>
            ELSE IF \E w \in {KW_interview, KW_questions} : has(w, q) THEN <<1, "interview">>
            ELSE <<0, "analysis">>

\* C30: the keyword classifiers of the repository agree: for every non-empty
\* query, the keyword-state route(query) selects the task index and label
\* that tasks/task_factory.get_task_from_query selects with no router
\* configured, and that services/task_factory.get_task_from_query selects.
\* Stated for queries in which every keyword of the router that occurs,
\* occurs as a whole word.
C30_ClassifiersAgree ==
   (/\ call.op = "route" /\ call.arg # << >>
    /\ call.pre.fallback_keyword
    /\ \A w \in RouterKeywords : In(w, lower(call.arg)) => has(w, lower(call.arg))) =>
      LET routed == <<call.ret.task_index, call.ret.label>>
          metric == [c \in Classes |-> 3]
      IN  /\ routed = get_task_from_query(NoneValue, Self, call.arg, {}, metric).ret.pair
          /\ routed = services_get_task_from_query(call.arg)
====
